---------------------------- MODULE Spec2Model ----------------------------
(***************************************************************************)
(* A model of class DQN of DeepQResNet.py: the replay buffer, the bucketed *)
(* visit-count table, the online/target network pair and the operations    *)
(* on them (InsertBuffer, train, flush, GetCount, _InsertHashTable,        *)
(* EstimatePolicy, BehaviorPolicy, update_target_model, load, save).       *)
(*                                                                         *)
(* Conventions.                                                            *)
(*  - Python lists are sequences; Python's 0-based indices are kept, so    *)
(*    list element i is seq[i + 1].                                        *)
(*  - Action values are fixed-point numbers in units of 1/10000.  The      *)
(*    networks answer in multiples of 1/100, so that gamma * q is exact;   *)
(*    floating-point rounding is not modelled.                             *)
(*  - The Keras network is opaque: its parameters are a value of Weights   *)
(*    and Predict is a fixed table over (weights, state, turn).            *)
(***************************************************************************)
EXTENDS Integers, Sequences, FiniteSets, TLC

(***************************************************************************)
(* Constructor arguments (DQN.__init__) and the bounds of the model.       *)
(***************************************************************************)
action_size == 3
batch_size == 2
maxBufferSize == 2
gammaPct == 99            \* gamma = 0.99, as a percentage
MaxInserts == 2           \* InsertBuffer calls explored under Spec
MaxInsertsCalls == 3      \* InsertBuffer calls explored under SpecCalls
MaxRecords == 2           \* _InsertHashTable executions explored under Spec
MaxInsertsDeep == 4       \* InsertBuffer calls explored under SpecMutators
MaxRecordsDeep == 2       \* _InsertHashTable executions under SpecMutators
MaxInsertsEvict == 6      \* InsertBuffer calls explored under SpecEvict
MaxFill == 7              \* InsertBuffer calls explored under SpecFill
MaxInsertsDrain == 3      \* InsertBuffer calls explored under SpecDrain
GridSize == 15            \* hashtable is GridSize x GridSize buckets
HashModulus == 10         \* row/col = int(half, 16) % 10

Actions == 0 .. (action_size - 1)
States == {1, 2, 3}
Turns == {0, 1}
Weights == {0, 1}

(***************************************************************************)
(* States are 8x8 integer boards of Othello (0 empty, 1 black, 2 white):   *)
(*   1: the position after d3, e3      2: the position after f5, f6        *)
(*   3: the starting position                                              *)
(* _Gethash joins str(row) of the numpy rows ("[0 0 0 1 2 0 0 0]...") and  *)
(* takes the md5 hex digest; MD5Hex tabulates the real digests of the      *)
(* three boards, one hex digit per element.                                *)
(*   1: 16870cc0a7ed4c13f01f53e4a97b1a9d   2: 822ba158863b45bfe943163d5ac5273f *)
(*   3: 2f1a9db18e1af6a70e85b8ed560df50c                                   *)
(***************************************************************************)
MD5Hex(state) ==
    CASE state = 1 -> << 1, 6, 8, 7, 0,12,12, 0,10, 7,14,13, 4,12, 1, 3,
                        15, 0, 1,15, 5, 3,14, 4,10, 9, 7,11, 1,10, 9,13>>
      [] state = 2 -> << 8, 2, 2,11,10, 1, 5, 8, 8, 6, 3,11, 4, 5,11,15,
                        14, 9, 4, 3, 1, 6, 3,13, 5,10,12, 5, 2, 7, 3,15>>
      [] state = 3 -> << 2,15, 1,10, 9,13,11, 1, 8,14, 1,10,15, 6,10, 7,
                         0,14, 8, 5,11, 8,14,13, 5, 6, 0,13,15, 5, 0,12>>

_Gethash(state) == MD5Hex(state)

Fingerprints == {_Gethash(s) : s \in States}

\* int(hex, 16) % HashModulus, digit by digit
RECURSIVE HexMod(_, _)
HexMod(hex, acc) ==
    IF hex = <<>> THEN acc
    ELSE HexMod(Tail(hex), (acc * 16 + Head(hex)) % HashModulus)

\* the two halves of a digest, each as an integer modulo HashModulus
HalfMods(hash_value) ==
    LET half_length == Len(hash_value) \div 2
        first_half == SubSeq(hash_value, 1, half_length)
        second_half == SubSeq(hash_value, half_length + 1, Len(hash_value))
    IN  [row |-> HexMod(first_half, 0), col |-> HexMod(second_half, 0)]

\* the same, tabulated over the digests that occur
BucketTable == [hash_value \in Fingerprints |-> HalfMods(hash_value)]

BucketOf(hash_value) == BucketTable[hash_value]

\* a Python dict as a function; d[k] = v
DictPut(d, k, v) == [x \in (DOMAIN d) \cup {k} |-> IF x = k THEN v ELSE d[x]]

EmptyDict == [x \in {} |-> 0]

GetCount(table, state) ==
    LET hash_value == _Gethash(state)
        b == BucketOf(hash_value)
    IN  IF hash_value \notin DOMAIN table[b.row][b.col]
        THEN 0
        ELSE table[b.row][b.col][hash_value]

\* a mutation: a fingerprint already present is set to 1 again
InsertHashTableNoIncrement(table, state) ==
    LET hash_value == _Gethash(state)
        b == BucketOf(hash_value)
    IN  [table EXCEPT ![b.row][b.col] = DictPut(table[b.row][b.col], hash_value, 1)]

\* a mutation: row and column exchanged when a record is made
InsertHashTableSwapped(table, state) ==
    LET hash_value == _Gethash(state)
        b == BucketOf(hash_value)
        d == table[b.col][b.row]
    IN  IF hash_value \notin DOMAIN d
        THEN [table EXCEPT ![b.col][b.row] = DictPut(d, hash_value, 1)]
        ELSE [table EXCEPT ![b.col][b.row] = DictPut(d, hash_value, d[hash_value] + 1)]

_InsertHashTable(table, state) ==
    LET hash_value == _Gethash(state)
        b == BucketOf(hash_value)
        d == table[b.row][b.col]
    IN  IF hash_value \notin DOMAIN d
        THEN [table EXCEPT ![b.row][b.col] = DictPut(d, hash_value, 1)]
        ELSE [table EXCEPT ![b.row][b.col] = DictPut(d, hash_value, d[hash_value] + 1)]

(***************************************************************************)
(* The network: Predict(w, state, turn) is the action-value vector of a    *)
(* network with parameters w, in units of 1/10000 (multiples of 1/100).    *)
(***************************************************************************)
Predict(w, state, turn) ==
    [a \in Actions |->
        100 * ((((2 * w + 1) * (state + a) + (turn + 1) * (a + 1) * (a + state)) % 5) - 1)]

VARIABLES
    replay_buffer,      \* self.replay_buffer: a list of transitions
    hashtable,          \* self.hashtable: GridSize x GridSize dicts
    model,              \* parameters of self.model (online network)
    target_model,       \* parameters of self.target_model
    ret,                \* the last call: its name and how it returned
    minibatch_indices,  \* train's local: the sampled indices of the last train
    target,             \* train's local: the target rows of the last train
    inserted,           \* history: number of InsertBuffer calls so far
    run,                \* history: consecutive InsertBuffer calls since the
                        \*   buffer was empty (-1 once a train broke the run)
    recorded,           \* history: executions of _InsertHashTable per fingerprint
    args,               \* history: the arguments of the policy call just made
    left,               \* history: the ways in which each transition left the
                        \*   buffer, by insertion number
    flushed,            \* the list object the last flush returned, as its
                        \*   holder sees it now (followed where limit.follow)
    limit               \* the bounds of the exploration, fixed by Init

vars == <<replay_buffer, hashtable, model, target_model, ret,
          minibatch_indices, target, inserted, run, recorded, args, left, flushed,
          limit>>

Result(op, kind, num, buf) == [op |-> op, kind |-> kind, num |-> num, buf |-> buf]

\* The policies change nothing, so the calls that follow a policy call meet
\* the state the calls before it met: the behaviours explored end with
\* their first policy call.
PolicyOps == {"EstimatePolicy", "BehaviorPolicy"}
Open == ret.op \notin PolicyOps

TotalRecorded == LET RECURSIVE Sum(_)
                     Sum(S) == IF S = {} THEN 0
                               ELSE LET f == CHOOSE x \in S : TRUE
                                    IN  recorded[f] + Sum(S \ {f})
                 IN  Sum(Fingerprints)

(***************************************************************************)
(* DQN.__init__: both networks are built, the target is synchronised to    *)
(* the online network, the table and the buffer are empty.                 *)
(***************************************************************************)
Constructed ==
    /\ model \in Weights
    /\ target_model = model
    /\ hashtable = [r \in 0 .. (GridSize - 1) |-> [c \in 0 .. (GridSize - 1) |-> EmptyDict]]
    /\ replay_buffer = <<>>
    /\ ret = Result("__init__", "None", 0, <<>>)
    /\ minibatch_indices = <<>>
    /\ target = <<>>
    /\ inserted = 0
    /\ run = 0
    /\ recorded = [f \in Fingerprints |-> 0]
    /\ args = <<>>
    /\ left = <<>>
    /\ flushed = [items |-> <<>>, shared |-> FALSE]

Init ==
    /\ Constructed
    /\ limit = [inserts |-> MaxInserts, records |-> MaxRecords, follow |-> FALSE]

(***************************************************************************)
(* InsertBuffer                                                            *)
(***************************************************************************)
\* pop, append and del change the list object self.replay_buffer is bound
\* to in place: whoever holds that same object sees the change
Seen(held, buffer) == IF held.shared THEN [held EXCEPT !.items = buffer] ELSE held

\* history: the transitions of list leave the buffer, in the given way
Leave(gone, list, way) ==
    LET leaving == {list[i].tag : i \in 1 .. Len(list)}
    IN  [n \in (DOMAIN gone) \cup leaving |->
            (IF n \in DOMAIN gone THEN gone[n] ELSE <<>>)
                \o (IF n \in leaving THEN <<way>> ELSE <<>>)]

\* the argument tuples InsertBuffer is called with
Transitions ==
    { [state |-> 1, action |-> 0, reward |-> 250, next_states |-> 2,
       done |-> TRUE, valid_actions |-> <<>>, turns |-> 1],
      [state |-> 2, action |-> 2, reward |-> 50, next_states |-> 3,
       done |-> FALSE, valid_actions |-> <<2, 0>>, turns |-> 0],
      [state |-> 3, action |-> 1, reward |-> 0, next_states |-> 1,
       done |-> FALSE, valid_actions |-> <<>>, turns |-> 0] }

\* the list entry: the seven arguments, tagged with the number of the call
\* that appended it (history only, never read by the operations)
Entry(t, n) ==
    [state |-> t.state, action |-> t.action, reward |-> t.reward,
     next_states |-> t.next_states, done |-> t.done,
     valid_actions |-> t.valid_actions, turns |-> t.turns, tag |-> n]

\* a mutation: the capacity test one further off
OverCapacityLate(buffer) == Len(buffer) > maxBufferSize + 1

\* a mutation: eviction already at the configured maximum
OverCapacityEarly(buffer) == Len(buffer) >= maxBufferSize

OverCapacity(buffer) == Len(buffer) > maxBufferSize

\* what replay_buffer.pop(0) returns, as a list; empty when nothing is popped
Popped(buffer) == IF OverCapacity(buffer) THEN <<Head(buffer)>> ELSE <<>>

\* a mutation: pop() instead of pop(0)
InsertedPopLast(buffer, entry) ==
    LET kept == IF OverCapacity(buffer) THEN SubSeq(buffer, 1, Len(buffer) - 1) ELSE buffer
    IN  Append(kept, entry)

Inserted(buffer, entry) ==
    LET kept == IF OverCapacity(buffer) THEN Tail(buffer) ELSE buffer
    IN  Append(kept, entry)

InsertBuffer ==
    /\ Open
    /\ inserted < limit.inserts
    /\ args' = <<>>
    /\ \E t \in Transitions :
          replay_buffer' = Inserted(replay_buffer, Entry(t, inserted + 1))
    /\ inserted' = inserted + 1
    /\ run' = IF run >= 0 THEN run + 1 ELSE run
    /\ ret' = Result("InsertBuffer", "None", 0, Popped(replay_buffer))
    /\ flushed' = Seen(flushed, replay_buffer')
    /\ left' = Leave(left, Popped(replay_buffer), "evicted")
    /\ minibatch_indices' = <<>>
    /\ target' = <<>>
    /\ UNCHANGED <<hashtable, model, target_model, recorded, limit>>

(***************************************************************************)
(* flush                                                                   *)
(***************************************************************************)
\* a mutation: the agent's own list is emptied in place and stays bound
SharedAfterClear == TRUE

\* self.replay_buffer = [] binds a new list: the list returned and the
\* agent's buffer are different objects from here on
SharedAfterFlush == FALSE

flush ==
    /\ Open
    /\ args' = <<>>
    /\ ret' = Result("flush", "buffer", 0, replay_buffer)
    /\ replay_buffer' = <<>>
    /\ flushed' = IF limit.follow
                  THEN Seen([items |-> replay_buffer, shared |-> SharedAfterFlush],
                            replay_buffer')
                  ELSE flushed
    /\ run' = 0
    /\ left' = Leave(left, replay_buffer, "flushed")
    /\ minibatch_indices' = <<>>
    /\ target' = <<>>
    /\ UNCHANGED <<hashtable, model, target_model, inserted, recorded, limit>>

(***************************************************************************)
(* train                                                                   *)
(***************************************************************************)
\* random.sample(range(n), k): k pairwise distinct indices, in any order
Samples(n, k) ==
    {s \in [1 .. k -> 0 .. (n - 1)] : \A i, j \in 1 .. k : i # j => s[i] # s[j]}

RECURSIVE InsertDescending(_, _)
InsertDescending(x, sorted) ==
    IF sorted = <<>> THEN <<x>>
    ELSE IF x >= Head(sorted) THEN <<x>> \o sorted
    ELSE <<Head(sorted)>> \o InsertDescending(x, Tail(sorted))

\* a mutation: the indices deleted in the order they were sampled
SampledOrder(indices) == indices

RECURSIVE SortedReverse(_)
SortedReverse(indices) ==
    IF indices = <<>> THEN <<>>
    ELSE InsertDescending(Head(indices), SortedReverse(Tail(indices)))

\* del buffer[index]
DelAt(buffer, index) ==
    SubSeq(buffer, 1, index) \o SubSeq(buffer, index + 2, Len(buffer))

RECURSIVE DeleteEach(_, _)
DeleteEach(buffer, order) ==
    IF order = <<>> THEN buffer
    ELSE DeleteEach(DelAt(buffer, Head(order)), Tail(order))

\* a mutation: the deletion loop is left out
RemoveSampledNone(buffer, indices) == buffer

\* for index in sorted(minibatch_indices, reverse=True): del replay_buffer[index]
RemoveSampled(buffer, indices) == DeleteEach(buffer, SortedReverse(indices))

\* a mutation: the maximum taken over all actions
GatherAll(q, valid_actions) == [k \in 1 .. action_size |-> q[k - 1]]

\* q[valid_actions]: numpy indexing with a list of indices
Gather(q, valid_actions) == [k \in 1 .. Len(valid_actions) |-> q[valid_actions[k]]]

\* np.amax of a non-empty array
RECURSIVE Amax(_)
Amax(values) ==
    IF Len(values) = 1 THEN values[1]
    ELSE LET rest == Amax(Tail(values))
         IN  IF Head(values) >= rest THEN Head(values) ELSE rest

\* rewards[i] / 100.0, in units of 1/10000
Scaled(reward) == reward * 100

\* the value written to target[i][actions[i]]
TargetSlot(e, Qrow) ==
    IF e.done
    THEN Scaled(e.reward)
    ELSE Scaled(e.reward) + (gammaPct * Amax(Gather(Qrow, e.valid_actions))) \div 100

\* np.amax raises ValueError on an empty selection
SlotRaises(e) == ~e.done /\ e.valid_actions = <<>>

\* a mutation: the next state recorded instead of the state
VisitedNext(table, e) == _InsertHashTable(table, e.next_states)

\* self._InsertHashTable(states[i])
Visited(table, e) == _InsertHashTable(table, e.state)

\* the loop "for i in range(self.batch_size)" from iteration i on: the
\* target rows and the table when it ends, whether it raised, and the
\* number of iterations that ran to their end
RECURSIVE TrainLoop(_, _, _, _, _)
TrainLoop(i, tgt, table, minibatch, Qvalue) ==
    IF i = batch_size
    THEN [target |-> tgt, table |-> table, raised |-> FALSE, completed |-> i]
    ELSE LET e == minibatch[i + 1]
         IN  IF SlotRaises(e)
             THEN [target |-> tgt, table |-> table, raised |-> TRUE, completed |-> i]
             ELSE TrainLoop(i + 1,
                            [tgt EXCEPT ![i + 1][e.action] = TargetSlot(e, Qvalue[i + 1])],
                            Visited(table, e),
                            minibatch, Qvalue)

RunLoop(w, tw, table, minibatch) ==
    TrainLoop(0,
              [i \in 1 .. batch_size |-> Predict(w, minibatch[i].state, minibatch[i].turns)],
              table, minibatch,
              [i \in 1 .. batch_size |-> Predict(tw, minibatch[i].next_states, minibatch[i].turns)])

\* history: n more executions of _InsertHashTable, on the first n states of the batch
Counted(rec, minibatch, n) ==
    [f \in Fingerprints |->
        rec[f] + Cardinality({i \in 1 .. n : _Gethash(minibatch[i].state) = f})]

\* a mutation: only the empty buffer is refused
TooFewEmpty(n) == n = 0

TooFew(n) == n < batch_size

TrainOn(indices) ==
    LET minibatch == [i \in 1 .. batch_size |-> replay_buffer[indices[i] + 1]]
        r == RunLoop(model, target_model, hashtable, minibatch)
    IN  /\ minibatch_indices' = indices
        /\ hashtable' = r.table
        /\ recorded' = Counted(recorded, minibatch, r.completed)
        /\ IF r.raised
           THEN /\ ret' = Result("train", "error", 0, <<>>)
                /\ target' = <<>>
                /\ UNCHANGED <<replay_buffer, model, left>>
           ELSE /\ ret' = Result("train", "loss", 0, <<>>)
                /\ target' = r.target
                /\ model' \in Weights          \* train_on_batch: one gradient step
                /\ replay_buffer' = RemoveSampled(replay_buffer, indices)
                /\ left' = Leave(left, minibatch, "trained")

train ==
    /\ Open
    /\ args' = <<>>
    /\ IF TooFew(Len(replay_buffer))
       THEN /\ ret' = Result("train", "None", 0, <<>>)
            /\ minibatch_indices' = <<>>
            /\ target' = <<>>
            /\ UNCHANGED <<replay_buffer, hashtable, model, recorded, left>>
       ELSE IF Samples(Len(replay_buffer), batch_size) = {}
       THEN \* random.sample raises ValueError: sample larger than population
            /\ ret' = Result("train", "error", 0, <<>>)
            /\ minibatch_indices' = <<>>
            /\ target' = <<>>
            /\ UNCHANGED <<replay_buffer, hashtable, model, recorded, left>>
       ELSE /\ TotalRecorded + batch_size <= limit.records
            /\ \E indices \in Samples(Len(replay_buffer), batch_size) : TrainOn(indices)
    /\ run' = IF replay_buffer' = <<>> THEN 0 ELSE -1
    /\ flushed' = Seen(flushed, replay_buffer')
    /\ UNCHANGED <<target_model, inserted, limit>>

(***************************************************************************)
(* update_target_model, load, save                                         *)
(***************************************************************************)
\* a mutation: the target keeps its old parameters
NotSynced(w) == target_model

\* target_model.set_weights(model.get_weights()): the values are copied
Synced(w) == w

update_target_model ==
    /\ Open
    /\ args' = <<>>
    /\ target_model' = Synced(model)
    /\ ret' = Result("update_target_model", "None", 0, <<>>)
    /\ minibatch_indices' = <<>>
    /\ target' = <<>>
    /\ UNCHANGED <<replay_buffer, hashtable, model, inserted, run, recorded, left, flushed, limit>>

\* load_weights reads the parameters stored under the name, then the
\* target is synchronised
load ==
    /\ Open
    /\ args' = <<>>
    /\ \E stored \in Weights :
          /\ model' = stored
          /\ target_model' = Synced(stored)
    /\ ret' = Result("load", "None", 0, <<>>)
    /\ minibatch_indices' = <<>>
    /\ target' = <<>>
    /\ UNCHANGED <<replay_buffer, hashtable, inserted, run, recorded, left, flushed, limit>>

\* save_weights writes the target network's parameters to storage
save ==
    /\ Open
    /\ args' = <<>>
    /\ ret' = Result("save", "None", 0, <<>>)
    /\ minibatch_indices' = <<>>
    /\ target' = <<>>
    /\ UNCHANGED <<replay_buffer, hashtable, model, target_model, inserted, run, recorded, left, flushed, limit>>

(***************************************************************************)
(* GetCount as a call                                                      *)
(***************************************************************************)
GetCountCall ==
    /\ Open
    /\ args' = <<>>
    /\ \E state \in States : ret' = Result("GetCount", "count", GetCount(hashtable, state), <<>>)
    /\ minibatch_indices' = <<>>
    /\ target' = <<>>
    /\ UNCHANGED <<replay_buffer, hashtable, model, target_model, inserted, run, recorded, left, flushed, limit>>

(***************************************************************************)
(* EstimatePolicy                                                          *)
(***************************************************************************)
\* the lists of legal actions the policies are called with: every order of
\* every set of actions, the empty list included
ValidLists ==
    UNION {{s \in [1 .. n -> Actions] : \A i, j \in 1 .. n : i # j => s[i] # s[j]} :
           n \in 0 .. action_size}

\* q_values[mask]: the values at the masked positions, in index order
RECURSIVE Masked(_, _, _)
Masked(q_values, mask, a) ==
    IF a = action_size THEN <<>>
    ELSE (IF a \in mask THEN <<q_values[a]>> ELSE <<>>) \o Masked(q_values, mask, a + 1)

\* np.argmax of a non-empty array: the first index (0-based) of its maximum
Argmax(values) ==
    CHOOSE k \in 0 .. (Len(values) - 1) :
        /\ \A j \in 1 .. Len(values) : values[j] <= values[k + 1]
        /\ \A j \in 1 .. k : values[j] < values[k + 1]

\* a mutation: the online network is asked
PolicyValuesOnline(state, turn) == Predict(model, state, turn)

\* self.target_model.predict([state, turn])[0]
PolicyValues(state, turn) == Predict(target_model, state, turn)

EstimateChoice(q_values, valid_action) ==
    LET mask == {valid_action[i] : i \in 1 .. Len(valid_action)}
    IN  valid_action[Argmax(Masked(q_values, mask, 0)) + 1]

EstimatePolicyOn(state, turn, valid_action) ==
    /\ Open
    /\ args' = [state |-> state, turn |-> turn, valid_action |-> valid_action]
    /\ ret' = IF valid_action = <<>>
              THEN Result("EstimatePolicy", "error", 0, <<>>)   \* argmax of an empty array
              ELSE Result("EstimatePolicy", "action",
                          EstimateChoice(PolicyValues(state, turn), valid_action), <<>>)
    /\ minibatch_indices' = <<>>
    /\ target' = <<>>
    /\ UNCHANGED <<replay_buffer, hashtable, model, target_model, inserted, run, recorded, left, flushed, limit>>

EstimatePolicy ==
    \E state \in States, turn \in Turns, valid_action \in ValidLists :
        EstimatePolicyOn(state, turn, valid_action)

(***************************************************************************)
(* BehaviorPolicy                                                          *)
(***************************************************************************)
\* env.simulateNextState: the board each action leads to.  The game is
\* outside the class; these are the simulators the policy is called with
Envs ==
    { [a \in Actions |-> a + 1],
      [a \in Actions |-> IF a = 0 THEN 3 ELSE 2],
      [a \in Actions |-> IF a = 1 THEN 1 ELSE 3] }

\* np.log(n) in units of 1/100000000, rounded down
LnE8(n) ==
    CASE n = 1 -> 0          [] n = 2 -> 69314718   [] n = 3 -> 109861228
      [] n = 4 -> 138629436  [] n = 5 -> 160943791  [] n = 6 -> 179175946
      [] n = 7 -> 194591014  [] n = 8 -> 207944154  [] n = 9 -> 219722457
      [] n = 10 -> 230258509 [] n = 11 -> 239789527 [] n = 12 -> 248490664
      [] n = 13 -> 256494935 [] n = 14 -> 263905732 [] n = 15 -> 270805020
      [] n = 16 -> 277258872

\* the integer square root, by bisection of lo .. hi
RECURSIVE Bisect(_, _, _)
Bisect(x, lo, hi) ==
    IF lo = hi THEN lo
    ELSE LET mid == (lo + hi + 1) \div 2
         IN  IF mid * mid <= x THEN Bisect(x, mid, hi) ELSE Bisect(x, lo, mid - 1)

\* np.sqrt of a number given in units of 1/100000000, in units of 1/10000
Sqrt(x) == Bisect(x, 0, 32767)

\* the largest sum of counts the policy meets here
MaxTotal == 12

\* np.sqrt(2 * np.log(total) / (1 + n)), in units of 1/10000, tabulated
BonusTable ==
    [total \in 1 .. MaxTotal |->
        [n \in 0 .. MaxTotal |-> Sqrt((2 * LnE8(total)) \div (1 + n))]]

\* np.sqrt(2 * np.log(np.sum(count)) / (1 + count[i])), in units of 1/10000
Bonus(total, n) == BonusTable[total][n]

RECURSIVE SumSeq(_)
SumSeq(values) == IF values = <<>> THEN 0 ELSE Head(values) + SumSeq(Tail(values))

\* count: the visit counts of the simulated next states, in list order
NextCounts(table, env, valid_action) ==
    [i \in 1 .. Len(valid_action) |-> GetCount(table, env[valid_action[i]])]

\* a mutation: the values are taken in index order, as EstimatePolicy does
UctValuesMasked(q_values, count, valid_action) ==
    LET q == Masked(q_values, {valid_action[i] : i \in 1 .. Len(valid_action)}, 0)
    IN  [i \in 1 .. Len(valid_action) |-> q[i] + Bonus(SumSeq(count), count[i])]

UctValues(q_values, count, valid_action) ==
    LET q == Gather(q_values, valid_action)
    IN  [i \in 1 .. Len(valid_action) |-> q[i] + Bonus(SumSeq(count), count[i])]

\* sum(count) == 0
NoData(count) == SumSeq(count) = 0

BehaviorPolicyOn(env, state, turn, valid_action) ==
    LET q_values == PolicyValues(state, turn)
        count == NextCounts(hashtable, env, valid_action)
    IN  /\ Open
        /\ args' = [env |-> env, state |-> state, turn |-> turn,
                    valid_action |-> valid_action]
        /\ IF NoData(count)
           THEN IF valid_action = <<>>
                THEN \* random.choice of an empty list raises IndexError
                     ret' = Result("BehaviorPolicy", "error", 0, <<>>)
                ELSE \E i \in 1 .. Len(valid_action) :
                         ret' = Result("BehaviorPolicy", "random", valid_action[i], <<>>)
           ELSE ret' = Result("BehaviorPolicy", "uct",
                              valid_action[Argmax(UctValues(q_values, count, valid_action)) + 1],
                              <<>>)
        /\ minibatch_indices' = <<>>
        /\ target' = <<>>
        /\ UNCHANGED <<replay_buffer, hashtable, model, target_model, inserted, run, recorded, left, flushed, limit>>

\* a mutation: the policy records the next states whose counts it reads
BehaviorPolicyRecording ==
    \E env \in Envs, state \in States, turn \in Turns, valid_action \in ValidLists :
        /\ Open
        /\ args' = [env |-> env, state |-> state, turn |-> turn,
                    valid_action |-> valid_action]
        /\ ret' = Result("BehaviorPolicy", "error", 0, <<>>)
        /\ hashtable' = _InsertHashTable(hashtable, env[0])
        /\ minibatch_indices' = <<>>
        /\ target' = <<>>
        /\ UNCHANGED <<replay_buffer, model, target_model, inserted, run, recorded, left, flushed, limit>>

BehaviorPolicy ==
    \E env \in Envs, state \in States, turn \in Turns, valid_action \in ValidLists :
        BehaviorPolicyOn(env, state, turn, valid_action)

\* the operations that change the agent
Mutators ==
    \/ InsertBuffer
    \/ flush
    \/ train
    \/ update_target_model
    \/ load

\* the operations that only read it
Queries ==
    \/ save
    \/ GetCountCall
    \/ EstimatePolicy
    \/ BehaviorPolicy

Next == Mutators \/ Queries

\* every operation, in any order
Spec == Init /\ [][Next]_vars

\* every operation but the two policies
Calls ==
    \/ Mutators
    \/ save
    \/ GetCountCall

InitCalls ==
    /\ Constructed
    /\ limit = [inserts |-> MaxInsertsCalls, records |-> MaxRecords, follow |-> FALSE]

SpecCalls == InitCalls /\ [][Calls]_vars

\* the mutating operations alone, explored deeper
InitDeep ==
    /\ Constructed
    /\ limit = [inserts |-> MaxInsertsDeep, records |-> MaxRecordsDeep, follow |-> TRUE]

SpecMutators == InitDeep /\ [][Mutators]_vars

\* the two operations that change the replay buffer's contents, deep enough
\* for an eviction that follows a train step
Replay ==
    \/ InsertBuffer
    \/ train

InitEvict ==
    /\ Constructed
    /\ limit = [inserts |-> MaxInsertsEvict, records |-> MaxRecordsDeep, follow |-> FALSE]

SpecEvict == InitEvict /\ [][Replay]_vars

\* filling the buffer: more InsertBuffer calls still, and no train step
\* that samples
InitFill ==
    /\ Constructed
    /\ limit = [inserts |-> MaxFill, records |-> 0, follow |-> FALSE]

SpecFill == InitFill /\ [][Mutators]_vars

\* a caller that fills the buffer and then calls train again and again, with
\* no InsertBuffer call after the first train call; the records allowed are
\* those the updates on a full buffer make
Fill ==
    /\ ret.op # "train"
    /\ InsertBuffer

Drain ==
    \/ Fill
    \/ train

InitDrain ==
    /\ Constructed
    /\ limit = [inserts |-> MaxInsertsDrain,
                records |-> batch_size * ((maxBufferSize + 1) \div batch_size),
                follow |-> FALSE]

\* the caller's loop goes on calling train
SpecDrain == InitDrain /\ [][Drain]_vars /\ WF_vars(train)

(***************************************************************************)
(* Helpers of the properties below                                         *)
(***************************************************************************)
Min(a, b) == IF a <= b THEN a ELSE b

\* the step just taken was a call of op / a call of train that returned kind
Called(op) == ret'.op = op
Trained(kind) == ret'.op = "train" /\ ret'.kind = kind

\* the entries of buffer at the (0-based) positions outside S, from position i on
RECURSIVE Unsampled(_, _, _)
Unsampled(buffer, S, i) ==
    IF i >= Len(buffer) THEN <<>>
    ELSE (IF i \in S THEN <<>> ELSE <<buffer[i + 1]>>) \o Unsampled(buffer, S, i + 1)

SetOf(seq) == {seq[i] : i \in 1 .. Len(seq)}

\* the sampled positions removed, the rest kept in order
ConsumedExactly(before, after, indices) ==
    /\ Len(indices) = batch_size
    /\ Cardinality(SetOf(indices)) = batch_size
    /\ SetOf(indices) \subseteq 0 .. (Len(before) - 1)
    /\ Len(after) = Len(before) - batch_size
    /\ after = Unsampled(before, SetOf(indices), 0)

C2_ShortBufferNoOp ==
    [][(Called("train") /\ Len(replay_buffer) < batch_size) =>
          /\ ret'.kind = "None"
          /\ UNCHANGED <<replay_buffer, hashtable, model, target_model>>]_vars

\* train returned None on a non-empty buffer after an earlier update
C2_Witness ==
    /\ ret.op = "train" /\ ret.kind = "None"
    /\ Len(replay_buffer) = batch_size - 1
    /\ TotalRecorded >= batch_size

(***************************************************************************)
(* C3: after n consecutive InsertBuffer calls on a buffer that was empty,  *)
(* with no train or flush in between, the buffer holds exactly             *)
(* min(n, maxBufferSize + 1) transitions.                                  *)
(***************************************************************************)
C3_SizeAfterInserts ==
    run >= 0 => Len(replay_buffer) = Min(run, maxBufferSize + 1)

\* maxBufferSize + 5 consecutive inserts have left maxBufferSize + 1 transitions
C3_Witness ==
    /\ run = maxBufferSize + 5
    /\ Len(replay_buffer) = maxBufferSize + 1

(***************************************************************************)
(* C4 (as amended): InsertBuffer evicts one transition whenever the buffer *)
(* holds more than maxBufferSize, so insertion cannot grow the buffer      *)
(* without bound: it never holds more than maxBufferSize + 1 transitions,  *)
(* however many InsertBuffer calls are made.                               *)
(***************************************************************************)
C4_SizeBounded == Len(replay_buffer) <= maxBufferSize + 1

\* more consecutive inserts than the buffer can hold, and it holds
\* maxBufferSize + 1
C4_Witness ==
    /\ ret.op = "InsertBuffer"
    /\ run > maxBufferSize + 2
    /\ Len(replay_buffer) = maxBufferSize + 1
    /\ ret.buf # <<>>

\* C4 as stated: sustained insertion grows the buffer beyond every bound.
\* A call changes the size by at most one and its effect on the size
\* depends on the size alone, so growth beyond maxBufferSize + 1 needs the
\* InsertBuffer calls made at size maxBufferSize + 1 to grow the buffer.
C4_Original ==
    [][(Called("InsertBuffer") /\ Len(replay_buffer) = maxBufferSize + 1) =>
          Len(replay_buffer') > Len(replay_buffer)]_vars

(***************************************************************************)
(* C5: whenever InsertBuffer evicts, it removes exactly one transition,    *)
(* the one inserted earliest among those in the buffer, which is the       *)
(* front; the new transition becomes the last element and the others keep  *)
(* their order - also after train steps removed sampled entries.           *)
(***************************************************************************)
Tags(buffer) == {buffer[i].tag : i \in 1 .. Len(buffer)}

C5_EvictionIsFifo ==
    [][(Called("InsertBuffer") /\ Tags(replay_buffer) \ Tags(replay_buffer') # {}) =>
          LET gone == Tags(replay_buffer) \ Tags(replay_buffer')
              last == replay_buffer'[Len(replay_buffer')]
          IN  /\ gone = {replay_buffer[1].tag}
              /\ \A t \in Tags(replay_buffer) : replay_buffer[1].tag <= t
              /\ last.tag = inserted'
              /\ replay_buffer' = Tail(replay_buffer) \o <<last>>]_vars

\* an eviction from a buffer out of which a train step had sampled entries:
\* what is left is not a run of consecutive insertions
C5_Witness ==
    /\ ret.op = "InsertBuffer"
    /\ ret.buf # <<>>
    /\ Len(replay_buffer) = maxBufferSize + 1
    /\ replay_buffer[2].tag > ret.buf[1].tag + 2

(***************************************************************************)
(* C6: in every reachable state and for every state s, GetCount(s) is the  *)
(* number of times _InsertHashTable has been executed on a state with the  *)
(* fingerprint of s (0 if never), and a GetCount call returns that number  *)
(* and changes nothing.                                                    *)
(***************************************************************************)
CountsAreRecords ==
    \A s \in States : GetCount(hashtable, s) = recorded[_Gethash(s)]

C6_CountIsNumberOfRecords ==
    /\ []CountsAreRecords
    /\ [][Called("GetCount") =>
             /\ UNCHANGED <<replay_buffer, hashtable, model, target_model, recorded>>
             /\ \E s \in States : ret'.num = recorded[_Gethash(s)]]_vars

\* one fingerprint recorded twice, one never, and GetCount returned 2
C6_Witness ==
    /\ ret.op = "GetCount" /\ ret.num = 2
    /\ \E s \in States : GetCount(hashtable, s) = 2
    /\ \E s \in States : GetCount(hashtable, s) = 0 /\ recorded[_Gethash(s)] = 0

(***************************************************************************)
(* C7: a train call that performs an update records the state of every     *)
(* sampled transition exactly once, terminal or not: the count of each     *)
(* fingerprint grows by the number of sampled transitions whose state has  *)
(* that fingerprint, no other entry of the table changes, and the sum of   *)
(* all counts grows by batch_size.                                         *)
(***************************************************************************)
\* the buckets in which two tables differ
Changed(before, after) ==
    LET rows == {r \in 0 .. (GridSize - 1) : after[r] # before[r]}
    IN  {c \in rows \X (0 .. (GridSize - 1)) : after[c[1]][c[2]] # before[c[1]][c[2]]}

RECURSIVE SumOver(_, _)
SumOver(f, S) ==
    IF S = {} THEN 0
    ELSE LET x == CHOOSE y \in S : TRUE IN f[x] + SumOver(f, S \ {x})

\* the count stored for fingerprint h in the buckets cells of the table
Stored(table, cells, h) ==
    LET holding == {c \in cells : h \in DOMAIN table[c[1]][c[2]]}
    IN  SumOver([c \in holding |-> table[c[1]][c[2]][h]], holding)

\* the sum of all counts in the buckets cells of the table
AllStored(table, cells) ==
    SumOver([c \in cells |-> SumOver(table[c[1]][c[2]], DOMAIN table[c[1]][c[2]])], cells)

KeysOf(table, cells) == UNION {DOMAIN table[c[1]][c[2]] : c \in cells}

SampledWith(buffer, indices, h) ==
    Cardinality({i \in 1 .. Len(indices) : _Gethash(buffer[indices[i] + 1].state) = h})

\* the counts of the buckets that did not change are the same by definition,
\* so the sums are taken over the buckets that changed
RecordsEachSample(before, after, buffer, indices) ==
    LET cells == Changed(before, after)
    IN  /\ \A h \in Fingerprints \cup KeysOf(after, cells) \cup KeysOf(before, cells) :
              Stored(after, cells, h) = Stored(before, cells, h) + SampledWith(buffer, indices, h)
        /\ AllStored(after, cells) = AllStored(before, cells) + batch_size

C7_UpdateRecordsEachSample ==
    [][Trained("loss") =>
          RecordsEachSample(hashtable, hashtable', replay_buffer, minibatch_indices')]_vars

\* an update on a terminal transition (state 1) and a non-terminal one
\* (state 2), whose next state 3 is not recorded
C7_Witness ==
    /\ ret.op = "train" /\ ret.kind = "loss"
    /\ GetCount(hashtable, 1) = 1
    /\ GetCount(hashtable, 2) = 1
    /\ GetCount(hashtable, 3) = 0

(***************************************************************************)
(* C8 (as stated): for every non-empty list of legal actions, in any       *)
(* order, EstimatePolicy returns an action of the list whose value under   *)
(* the target network is the maximum over the legal actions, the first     *)
(* such action of the list on ties.                                        *)
(***************************************************************************)
GreedyIn(q, valid_action, a) ==
    \E i \in 1 .. Len(valid_action) :
        /\ valid_action[i] = a
        /\ \A j \in 1 .. Len(valid_action) : q[valid_action[j]] <= q[a]
        /\ \A j \in 1 .. (i - 1) : q[valid_action[j]] < q[a]

C8_EstimateIsGreedy ==
    [][Called("EstimatePolicy") =>
          \A state \in States, turn \in Turns, valid_action \in ValidLists \ {<<>>} :
              EstimatePolicyOn(state, turn, valid_action) =>
                  /\ ret'.kind = "action"
                  /\ GreedyIn(Predict(target_model, state, turn), valid_action, ret'.num)]_vars

(***************************************************************************)
(* C9: in a train step that performs an update, the target row of each     *)
(* sampled transition is the online network's prediction for its state in  *)
(* every slot but the one of the action taken; that slot is reward/100     *)
(* when done, and reward/100 + gamma * (the maximum of the target          *)
(* network's next-state values over the valid next actions) otherwise.     *)
(***************************************************************************)
MaxOf(S) == CHOOSE m \in S : \A x \in S : x <= m

\* the largest next-state value of network tw over the valid next actions
NextBest(e, tw) ==
    MaxOf({Predict(tw, e.next_states, e.turns)[a] : a \in SetOf(e.valid_actions)})

\* gamma * NextBest is a whole number of 1/10000
ExpectedSlot(e, tw) ==
    IF e.done
    THEN 100 * e.reward
    ELSE 100 * e.reward + (gammaPct * NextBest(e, tw)) \div 100

C9_TargetRows ==
    [][Trained("loss") =>
          /\ Len(target') = batch_size
          /\ \A i \in 1 .. batch_size :
                LET e == replay_buffer[minibatch_indices'[i] + 1]
                IN  /\ \A a \in Actions \ {e.action} :
                          target'[i][a] = Predict(model, e.state, e.turns)[a]
                    /\ target'[i][e.action] = ExpectedSlot(e, target_model)
                    /\ ~e.done => (gammaPct * NextBest(e, target_model)) % 100 = 0]_vars

\* one batch with the terminal transition (reward 250: slot 2.5) and the
\* non-terminal one, whose legal maximum 0 is below the overall maximum 0.01
C9_Witness ==
    /\ ret.op = "train" /\ ret.kind = "loss"
    /\ target_model = 0
    /\ \E i \in 1 .. Len(target) : target[i][0] = 25000
    /\ \E i \in 1 .. Len(target) : target[i][2] = 5000

(***************************************************************************)
(* C10: the target network's parameters change only in                     *)
(* update_target_model and load (and are set at construction); right       *)
(* after either they equal the online network's parameters; train never    *)
(* changes them, whatever it does to the online network.                   *)
(***************************************************************************)
SyncCalls == {"update_target_model", "load"}

C10_TargetChangesOnlyBySync ==
    /\ target_model = model
    /\ [][/\ target_model' # target_model => ret'.op \in SyncCalls
          /\ ret'.op \in SyncCalls => target_model' = model'
          /\ Called("train") => target_model' = target_model]_vars

\* a train step has moved the online network away from the target's
\* snapshot, which had been synchronised by a call
C10_Witness ==
    /\ ret.op = "train" /\ ret.kind = "loss"
    /\ target_model # model

(***************************************************************************)
(* C11: for a non-empty list of legal actions BehaviorPolicy returns a     *)
(* member of the list; it takes the random branch exactly when the visit   *)
(* counts of the simulated next states of the legal actions sum to 0, and  *)
(* otherwise returns the first legal action, in list order, that attains   *)
(* the maximum of value + sqrt(2 * ln(total_count) / (1 + count)).         *)
(***************************************************************************)
\* the visit counts of the next states of the legal actions of call a
CountsOf(a) ==
    [i \in 1 .. Len(a.valid_action) |-> GetCount(hashtable, a.env[a.valid_action[i]])]

\* the score of the i-th legal action of call a, in units of 1/10000
UctScore(a, i) ==
    Predict(target_model, a.state, a.turn)[a.valid_action[i]]
        + Bonus(SumSeq(CountsOf(a)), CountsOf(a)[i])

FirstBest(a, chosen) ==
    \E i \in 1 .. Len(a.valid_action) :
        /\ a.valid_action[i] = chosen
        /\ \A j \in 1 .. Len(a.valid_action) : UctScore(a, j) <= UctScore(a, i)
        /\ \A j \in 1 .. (i - 1) : UctScore(a, j) < UctScore(a, i)

C11_BehaviorChoice ==
    [][(Called("BehaviorPolicy") /\ args'.valid_action # <<>>) =>
          /\ ret'.kind \in {"random", "uct"}
          /\ ret'.num \in SetOf(args'.valid_action)
          /\ ret'.kind = "random" <=> SumSeq(CountsOf(args')) = 0
          /\ ret'.kind = "uct" => FirstBest(args', ret'.num)]_vars

\* a call on an unsorted list of all actions in which the bonus decided:
\* the action returned has not the largest value of the list
C11_Witness ==
    /\ ret.op = "BehaviorPolicy" /\ ret.kind = "uct"
    /\ Len(args.valid_action) = action_size
    /\ args.valid_action[1] > args.valid_action[2]
    /\ SumSeq(CountsOf(args)) >= 2
    /\ \E a \in Actions :
          Predict(target_model, args.state, args.turn)[a]
              > Predict(target_model, args.state, args.turn)[ret.num]

(***************************************************************************)
(* C12: BehaviorPolicy and EstimatePolicy are read-only: a call of either  *)
(* leaves the replay buffer, the visit-count table and both networks as    *)
(* they were; the behavior policy reads visit counts and records none.     *)
(***************************************************************************)
C12_PoliciesReadOnly ==
    [][ret'.op \in PolicyOps =>
          UNCHANGED <<replay_buffer, hashtable, model, target_model, recorded>>]_vars

\* a behavior-policy call that read counts above 0, on an agent whose
\* networks differ: the counts are still the numbers of records made
C12_Witness ==
    /\ ret.op = "BehaviorPolicy" /\ ret.kind = "uct"
    /\ model # target_model
    /\ \E i \in 1 .. Len(args.valid_action) : CountsOf(args)[i] > 0
    /\ \A state \in States : GetCount(hashtable, state) = recorded[_Gethash(state)]

(***************************************************************************)
(* C13: the policies consult the target network alone: for fixed state,    *)
(* turn and legal actions the answer of EstimatePolicy is the same before  *)
(* and after any train step, so it is the same after any number of them    *)
(* until a sync (which alone changes the target network, C10); and the     *)
(* action a call returns is that answer.                                   *)
(***************************************************************************)
\* what EstimatePolicy answers in the current state
EstimateAnswer(state, turn, valid_action) ==
    EstimateChoice(PolicyValues(state, turn), valid_action)

C13_EstimateStableUnderTraining ==
    [][/\ Called("train") =>
             \A state \in States, turn \in Turns, valid_action \in ValidLists \ {<<>>} :
                 EstimateAnswer(state, turn, valid_action)'
                     = EstimateAnswer(state, turn, valid_action)
       /\ (Called("EstimatePolicy") /\ args'.valid_action # <<>>) =>
             ret'.num = EstimateChoice(Predict(target_model, args'.state, args'.turn),
                                       args'.valid_action)]_vars

\* a call made after a train step moved the online network away from the
\* target: the online network would have answered otherwise
C13_Witness ==
    /\ ret.op = "EstimatePolicy" /\ ret.kind = "action"
    /\ TotalRecorded >= batch_size
    /\ model # target_model
    /\ EstimateChoice(Predict(model, args.state, args.turn), args.valid_action) # ret.num

(***************************************************************************)
(* C14: flush returns every transition in the replay buffer, in insertion  *)
(* order, and leaves the buffer empty in the same step, without touching   *)
(* the visit-count table; no later call changes the list it returned, so   *)
(* transitions inserted afterwards never appear in it.                     *)
(***************************************************************************)
InInsertionOrder(buffer) ==
    \A i, j \in 1 .. Len(buffer) : i < j => buffer[i].tag < buffer[j].tag

C14_FlushHandsOver ==
    [][/\ Called("flush") =>
             /\ ret'.buf = replay_buffer
             /\ InInsertionOrder(ret'.buf)
             /\ flushed'.items = ret'.buf
             /\ replay_buffer' = <<>>
             /\ UNCHANGED <<hashtable, recorded>>
       /\ ~Called("flush") => flushed'.items = flushed.items]_vars

\* a flush handed out two transitions and InsertBuffer was called since:
\* the list handed out is as it was and the buffer holds the new one
C14_Witness ==
    /\ ret.op = "InsertBuffer"
    /\ Len(flushed.items) >= 2
    /\ replay_buffer # <<>>
    /\ \A i \in 1 .. Len(flushed.items) : flushed.items[i].tag < replay_buffer[1].tag

SampledTags(buffer, indices) == {buffer[indices[i] + 1].tag : i \in 1 .. Len(indices)}

\* what the train call just made sampled and left in the buffer
SampledAndKept ==
    IF ret.op = "train" /\ ret.kind = "error"
    THEN SampledTags(replay_buffer, minibatch_indices)
    ELSE {}

FlatMap == [h \in {f \in Fingerprints : recorded[f] > 0} |-> recorded[h]]

FlatGet(h) == IF h \in DOMAIN FlatMap THEN FlatMap[h] ELSE 0

\* the fingerprints stored anywhere in the table
StoredKeys ==
    UNION {DOMAIN hashtable[r][c] : r \in 0 .. (GridSize - 1), c \in 0 .. (GridSize - 1)}

C16_TableIsFlatMap ==
    /\ \A r \in 0 .. (GridSize - 1), c \in 0 .. (GridSize - 1) :
          /\ \A h \in DOMAIN hashtable[r][c] :
                /\ HalfMods(h) = [row |-> r, col |-> c]
                /\ hashtable[r][c][h] = FlatMap[h]
          /\ (r >= HashModulus \/ c >= HashModulus) => DOMAIN hashtable[r][c] = {}
    /\ StoredKeys = DOMAIN FlatMap
    /\ \A state \in States : GetCount(hashtable, state) = FlatGet(_Gethash(state))

\* GetCount was called on a table with two fingerprints in one bucket and
\* returned a count above 0
C16_Witness ==
    /\ ret.op = "GetCount" /\ ret.num > 0
    /\ \E r \in 0 .. (HashModulus - 1), c \in 0 .. (HashModulus - 1) :
          Cardinality(DOMAIN hashtable[r][c]) = 2

(***************************************************************************)
(* C17 (as stated): a train call that has sampled its batch and raises     *)
(* while computing targets is all-or-nothing: the replay buffer and the    *)
(* visit-count table are as they were before the call.                     *)
(***************************************************************************)
C17_FailedTrainChangesNothing ==
    [][(Trained("error") /\ minibatch_indices' # <<>>) =>
          UNCHANGED <<replay_buffer, hashtable>>]_vars

(***************************************************************************)
(* C18 (as amended): with batch_size >= 1 and no InsertBuffer call in      *)
(* between, train calls made on a buffer of n transitions drain it: a call *)
(* on fewer than batch_size transitions is a no-op that returns None, a    *)
(* call on batch_size or more either performs its update and removes       *)
(* batch_size transitions or raises and removes none; so at most           *)
(* n \div batch_size calls perform an update, a call returns None only     *)
(* after exactly that many did and the buffer then holds n % batch_size    *)
(* transitions, as it does after every further call; and a caller that     *)
(* repeats train is bound to see a call that returns None or raises.       *)
(***************************************************************************)
\* the transitions that have left the buffer this way
Gone(way) == {t \in DOMAIN left : left[t] = <<way>>}

\* n: under SpecDrain every eviction comes before the first train call, so
\* the loop starts with the transitions inserted and not evicted
StartSize == inserted - Cardinality(Gone("evicted"))

\* the train calls that have performed their update
Updates == Cardinality(Gone("trained")) \div batch_size

DrainCount ==
    /\ batch_size >= 1
    /\ Cardinality(Gone("trained")) % batch_size = 0
    /\ Len(replay_buffer) = StartSize - batch_size * Updates
    /\ Updates <= StartSize \div batch_size
    /\ (ret.op = "train" /\ ret.kind = "None") =>
          /\ Updates = StartSize \div batch_size
          /\ Len(replay_buffer) = StartSize % batch_size

TrainStep ==
    Called("train") =>
        /\ Len(replay_buffer) < batch_size =>
              Trained("None") /\ UNCHANGED <<replay_buffer, model, hashtable>>
        /\ Len(replay_buffer) >= batch_size =>
              \/ Trained("loss") /\ Len(replay_buffer') = Len(replay_buffer) - batch_size
              \/ Trained("error") /\ UNCHANGED replay_buffer
        /\ (ret.op = "train" /\ ret.kind = "None") =>
              Trained("None") /\ UNCHANGED <<replay_buffer, model, hashtable>>

LoopEnds == ret.op = "train" /\ ret.kind \in {"None", "error"}

====
